---- MODULE Spec2Model ----
(***************************************************************************)
(* The labelled/unlabelled pool bookkeeping of alr (alr/data/__init__.py): *)
(* UnlabelledDataset (mask, logical-to-absolute translation, length) and   *)
(* DataManager (acquire / reset over a growing labelled collection); the   *)
(* annealed pseudo-label trainer (alr/training/pseudo_label_trainer.py):   *)
(* Annealer, WraparoundLoader and the two stages of PLTrainer.fit; and the *)
(* top-b selection of the MaxEnt and LastKL acquisition functions.         *)
(*                                                                         *)
(* Absolute and logical indices are 0-based as in the source; tensors and  *)
(* datasets are TLA+ sequences, so element i of a tensor t is t[i + 1].    *)
(* A dataset is the sequence of its items; a pool item is its absolute     *)
(* index, a baseline item is a negative number.                            *)
(***************************************************************************)
EXTENDS Integers, Sequences, FiniteSets, TLC

\* ---------------------------------------------------------------- bounds
\* len(dataset): the size N of the backing pool
PoolSize == 3
\* the size N of the backing pool in the end-to-end scenario
E2EPoolSize == 5
\* largest batch size b requested from acquire(), and longest idxs given to label()
MaxB == 2
\* size of the baseline labelled set handed to DataManager
BaselineSize == 1

VARIABLES
    _dataset,       \* UnlabelledDataset._dataset: the backing pool, never changed
    _mask,          \* UnlabelledDataset._mask: absolute index -> still unlabelled
    _idx_mask,      \* UnlabelledDataset._idx_mask: logical index -> absolute index
    _len,           \* UnlabelledDataset._len
    _label_fn,      \* whether a label_fn was given to the constructor
    _labelled,      \* DataManager._labelled
    _old_labelled,  \* DataManager._old_labelled (the baseline)
    last,           \* the last call: its arguments, outcome and the state before it
    e2e_b,          \* end-to-end driver: the batch size of its acquire() loop
    e2e_j,          \* end-to-end driver: acquire() calls made so far
    debug,          \* UnlabelledDataset.debug: the raw flag
    _pairs,         \* whether the items of _dataset are (x, y) pairs or x alone
    got,            \* the last __getitem__ call: its index and what it returned
    scopes,         \* the open true_labels() scopes, innermost last
    annealer,       \* an Annealer: _step, _T1, _T2, _alpha (a fraction <<num, den>>)
    scorer,         \* the last call of an acquisition function: scores, b, result
    fit,            \* a PLTrainer.fit() call: its arguments, position and records
    dropout,        \* a ConsistentDropout module: training, _mask, and the masks used
    clone,          \* the view disable_augmentation() returned, and its argument before
    losses,         \* the arguments of a soft loss and what it returned
    exited          \* the last true_labels() scope left: the flag before it and after

\* what the pool and its manager never touch
extra == <<dropout, clone, losses, exited>>

rest == <<debug, _pairs, got, scopes, annealer, scorer, fit, extra>>

\* the pool and its manager
pool == <<_dataset, _mask, _idx_mask, _len, _label_fn, _labelled, _old_labelled,
          last, e2e_b, e2e_j>>

vars == <<pool, rest>>

\* a pool of n items
Pool(n) == [k \in 1 .. n |-> k - 1]

\* ---------------------------------------------------------- tensor helpers
\* torch.ones(len(dataset), dtype=torch.bool)
ones(n) == [i \in 0 .. (n - 1) |-> TRUE]

\* torch.arange(len(dataset))
arange(n) == [k \in 1 .. n |-> k - 1]

RECURSIVE nonzero_from(_, _)
nonzero_from(m, i) ==
    IF i \notin DOMAIN m THEN << >>
    ELSE (IF m[i] THEN << i >> ELSE << >>) \o nonzero_from(m, i + 1)

\* torch.nonzero(m).flatten(): the positions where m is true, scanned in order
nonzero(m) == nonzero_from(m, 0)

\* ~m
invert(m) == [i \in DOMAIN m |-> ~m[i]]

\* t[i] for an integer i: negative indices count from the end, others raise IndexError
index_ok(t, i) == -Len(t) <= i /\ i < Len(t)

index_at(t, i) == IF i < 0 THEN t[Len(t) + i + 1] ELSE t[i + 1]

\* t[idxs] for a sequence of integers idxs (advanced indexing)
gather_ok(t, idxs) == \A k \in 1 .. Len(idxs) : index_ok(t, idxs[k])

gather(t, idxs) == [k \in 1 .. Len(idxs) |-> index_at(t, idxs[k])]

\* m[abs] = 0
mask_clear(m, abs) ==
    [i \in DOMAIN m |-> IF \E k \in 1 .. Len(abs) : abs[k] = i THEN FALSE ELSE m[i]]

\* sum(m)
popcount(m) == Cardinality({i \in DOMAIN m : m[i]})

Distinct(s) == \A j, k \in 1 .. Len(s) : j # k => s[j] # s[k]

\* ------------------------------------------------------ UnlabelledDataset
\* the object's fields as one value
UD == [dataset |-> _dataset, mask |-> _mask, idx_mask |-> _idx_mask, len |-> _len, label_fn |-> _label_fn]

\* a call of label() that raises: what it leaves behind
label_raise(ud, err) ==
    [ok |-> FALSE, err |-> err, mask |-> ud.mask, idx_mask |-> ud.idx_mask,
     len |-> ud.len, labelled |-> << >>]

\* a length update that counts the call, not the indices
len_after_label_once(n, idxs) == n - 1

\* self._len -= len(idxs)
len_after_label(n, idxs) == n - Len(idxs)

\* the statements that update masks and length, then return labelled
label_commit(ud, idxs, abs) ==
    LET m == mask_clear(ud.mask, abs)
    IN  [ok |-> TRUE, err |-> "", mask |-> m, idx_mask |-> nonzero(m),
         len |-> len_after_label(ud.len, idxs), labelled |-> abs]

\* a label() that updates the masks before it calls the label_fn
label_eager(ud, idxs, fn_raises) ==
    LET local_mask == ud.idx_mask
    IN  IF ~gather_ok(local_mask, idxs) THEN label_raise(ud, "IndexError")
        ELSE LET abs == gather(local_mask, idxs)
                 done == label_commit(ud, idxs, abs)
             IN  IF ~(\A k \in 1 .. Len(abs) : ud.mask[abs[k]])
                     THEN label_raise(ud, "AssertionError: labelled")
                 ELSE IF ud.len = 0
                     THEN label_raise(ud, "AssertionError: no remaining")
                 ELSE IF ud.label_fn /\ fn_raises
                     THEN [done EXCEPT !.ok = FALSE, !.err = "label_fn",
                                       !.labelled = << >>]
                 ELSE done

\* UnlabelledDataset.label(idxs); fn_raises: the label_fn (if any) raises
label(ud, idxs, fn_raises) ==
    LET local_mask == ud.idx_mask
    IN  IF ~gather_ok(local_mask, idxs) THEN label_raise(ud, "IndexError")
        ELSE LET abs == gather(local_mask, idxs)
             IN  IF ~(\A k \in 1 .. Len(abs) : ud.mask[abs[k]])
                     THEN label_raise(ud, "AssertionError: labelled")
                 ELSE IF ud.len = 0
                     THEN label_raise(ud, "AssertionError: no remaining")
                 ELSE IF ud.label_fn /\ fn_raises
                     THEN label_raise(ud, "label_fn")
                 ELSE label_commit(ud, idxs, abs)

\* UnlabelledDataset.__len__
ud_len(ud) == ud.len

\* UnlabelledDataset.convert_idx
convert_idx(ud, idxs) == gather(ud.idx_mask, idxs)

\* a labelled_indices that reads the mask without inverting it
labelled_indices_plain(m) == nonzero(m)

\* UnlabelledDataset.labelled_indices
labelled_indices(m) == nonzero(invert(m))

\* a reset() that restores the masks and forgets the length
ud_reset_masks(ud) ==
    [ud EXCEPT !.mask = ones(Len(ud.dataset)), !.idx_mask = arange(Len(ud.dataset))]

\* UnlabelledDataset.reset
ud_reset(ud) ==
    [ud EXCEPT !.mask = ones(Len(ud.dataset)), !.idx_mask = arange(Len(ud.dataset)),
               !.len = Len(ud.dataset)]

\* ------------------------------------------------------------- DataManager
\* the manager's fields as one value
DM == [labelled |-> _labelled, old_labelled |-> _old_labelled, unlabelled |-> UD]

\* DataManager.n_labelled
n_labelled(dm) == Len(dm.labelled)

\* DataManager.n_unlabelled
n_unlabelled(dm) == ud_len(dm.unlabelled)

\* a bound check against the whole pool instead of what is left of it
acquire_pre_pool(dm, b) == b <= Len(dm.unlabelled.dataset)

\* assert b <= self.n_unlabelled
acquire_pre(dm, b) == b <= n_unlabelled(dm)

\* assert idxs.shape == (b,)
shape_ok(idxs, b) == Len(idxs) = b

\* an append that keeps only the new dataset
append_to_labelled_replace(l, dataset) == dataset

\* DataManager.append_to_labelled: ConcatDataset((self._labelled, dataset))
append_to_labelled(l, dataset) == l \o dataset

\* a call of acquire() that raises: what it leaves behind
acquire_raise(dm, err, called) ==
    [ok |-> FALSE, err |-> err, afn_called |-> called, true_idxs |-> << >>,
     subset |-> << >>, unlabelled |-> dm.unlabelled, labelled |-> dm.labelled]

\* an acquire() that converts the indices after label() has relabelled the pool
acquire_convert_late(dm, b, afn, fn_raises) ==
    IF ~acquire_pre(dm, b) THEN acquire_raise(dm, "AssertionError: b", FALSE)
    ELSE IF afn.raises THEN acquire_raise(dm, "acquisition_fn", TRUE)
    ELSE IF ~shape_ok(afn.idxs, b) THEN acquire_raise(dm, "AssertionError: shape", TRUE)
    ELSE LET r == label(dm.unlabelled, afn.idxs, fn_raises)
             after == [dm.unlabelled EXCEPT !.mask = r.mask, !.idx_mask = r.idx_mask,
                                            !.len = r.len]
         IN  IF ~r.ok THEN acquire_raise(dm, r.err, TRUE)
             ELSE IF ~gather_ok(after.idx_mask, afn.idxs)
                 THEN [acquire_raise(dm, "IndexError", TRUE) EXCEPT
                          !.unlabelled = after]
             ELSE [ok |-> TRUE, err |-> "", afn_called |-> TRUE,
                   true_idxs |-> convert_idx(after, afn.idxs), subset |-> r.labelled,
                   unlabelled |-> after,
                   labelled |-> append_to_labelled(dm.labelled, r.labelled)]

\* DataManager.acquire(b); afn is what the acquisition function does when it is
\* called on the (optionally transformed) pool: it raises or returns idxs
acquire(dm, b, afn, fn_raises) ==
    IF ~acquire_pre(dm, b) THEN acquire_raise(dm, "AssertionError: b", FALSE)
    ELSE IF afn.raises THEN acquire_raise(dm, "acquisition_fn", TRUE)
    ELSE IF ~shape_ok(afn.idxs, b) THEN acquire_raise(dm, "AssertionError: shape", TRUE)
    ELSE IF ~gather_ok(dm.unlabelled.idx_mask, afn.idxs)
        THEN acquire_raise(dm, "IndexError", TRUE)
    ELSE LET true_idxs == convert_idx(dm.unlabelled, afn.idxs)
             r == label(dm.unlabelled, afn.idxs, fn_raises)
         IN  IF ~r.ok THEN acquire_raise(dm, r.err, TRUE)
             ELSE [ok |-> TRUE, err |-> "", afn_called |-> TRUE,
                   true_idxs |-> true_idxs, subset |-> r.labelled,
                   unlabelled |-> [dm.unlabelled EXCEPT !.mask = r.mask,
                                       !.idx_mask = r.idx_mask, !.len = r.len],
                   labelled |-> append_to_labelled(dm.labelled, r.labelled)]

\* DataManager.reset
dm_reset(dm) ==
    [dm EXCEPT !.unlabelled = ud_reset(dm.unlabelled), !.labelled = dm.old_labelled]

\* ------------------------------------------------------------------ inputs
\* the sequences of n elements of S
SeqsOf(S, n) == [1 .. n -> S]

\* index values a caller may pass: every valid index from the front, -1 (the last
\* element, counted from the end) and one past the end
IdxVals(ud) == -1 .. Len(ud.idx_mask)

\* whether the label_fn raises is a choice only when there is a label_fn
FnRaises == IF _label_fn THEN BOOLEAN ELSE {FALSE}

\* the baseline labelled set of n items
Baseline(n) == [k \in 1 .. n |-> -k]

\* ----------------------------------------------------------------- history
\* the state a call starts from, as recorded in last
Pre == [mask |-> _mask, idx_mask |-> _idx_mask, len |-> _len, labelled |-> _labelled]

\* idxs are pairwise distinct indices, each in [0, n)
ValidIdxs(idxs, n) ==
    /\ Distinct(idxs)
    /\ \A k \in 1 .. Len(idxs) : 0 <= idxs[k] /\ idxs[k] < n

\* some index of idxs is requested twice
HasDup(idxs) == ~Distinct(idxs)

\* some index of idxs, read in an earlier view of the pool, names an item that
\* has been labelled since
HasStale(idxs, view, m) ==
    \E k \in 1 .. Len(idxs) :
        /\ 0 <= idxs[k]
        /\ idxs[k] < Len(view)
        /\ ~m[view[idxs[k] + 1]]

\* idxs, valid, dup, stale describe a call that went through: the indices it
\* labelled, whether they were all distinct and in [0, len), whether they held a
\* repeated index, a stale index
NoCall == [op |-> "init", b |-> 0, idxs |-> << >>, ok |-> TRUE, err |-> "", afn_called |-> FALSE,
           afn_returned |-> FALSE, valid |-> TRUE, dup |-> FALSE, stale |-> FALSE,
           true_idxs |-> << >>, subset |-> << >>]

\* ------------------------------------------------------------------ states
\* UnlabelledDataset.__init__ on a pool of n items
InitUD(n) ==
    /\ _dataset = Pool(n)
    /\ _mask = ones(n)
    /\ _idx_mask = arange(n)
    /\ _len = n
    /\ _label_fn \in BOOLEAN

\* ------------------------------------------------------ parts left at rest
\* Annealer.__init__ with its default arguments
DefaultStep == 0
DefaultT1 == 100
DefaultT2 == 700
DefaultAlpha == 3

NewAnnealer(step, T1, T2, alpha) == [step |-> step, T1 |-> T1, T2 |-> T2, alpha |-> alpha]

NoGet == [op |-> "none", idx |-> 0, debug |-> FALSE, ok |-> TRUE, kind |-> "", abs |-> 0]

NoScorer == [op |-> "none", scores |-> << >>, finite |-> TRUE, b |-> 0, ok |-> TRUE,
             result |-> << >>]

NoFit == [pc |-> "none"]

\* the view's flags as the constructor leaves them by default
InitFlags ==
    /\ debug = FALSE
    /\ _pairs = ~_label_fn
    /\ got = NoGet
    /\ scopes = << >>

InitAnnealerIdle == annealer = NewAnnealer(DefaultStep, DefaultT1, DefaultT2, <<DefaultAlpha, 1>>)

InitScorerIdle == scorer = NoScorer

InitFitIdle == fit = NoFit

NoDropout == [op |-> "none"]

NoClone == [op |-> "none"]

NoLosses == [op |-> "none"]

NoExit == [op |-> "none"]

InitExtra ==
    /\ dropout = NoDropout
    /\ clone = NoClone
    /\ losses = NoLosses
    /\ exited = NoExit

\* everything but the pool, untouched
InitRest ==
    /\ InitFlags
    /\ InitAnnealerIdle
    /\ InitScorerIdle
    /\ InitFitIdle
    /\ InitExtra

\* a fresh pool without label_fn and its manager, for the parts that never
\* touch them
InitPoolAtRest ==
    /\ _dataset = Pool(PoolSize)
    /\ _mask = ones(PoolSize)
    /\ _idx_mask = arange(PoolSize)
    /\ _len = PoolSize
    /\ _label_fn = FALSE
    /\ _old_labelled = Baseline(BaselineSize)
    /\ _labelled = _old_labelled
    /\ last = NoCall @@ [pre |-> Pre]
    /\ e2e_b = 0
    /\ e2e_j = 0
    /\ InitFlags

\* UnlabelledDataset.__init__ and DataManager.__init__
Init ==
    /\ InitUD(PoolSize)
    /\ _old_labelled = Baseline(BaselineSize)
    /\ _labelled = _old_labelled
    /\ last = NoCall @@ [pre |-> Pre]
    /\ e2e_b = 0
    /\ e2e_j = 0
    /\ InitRest

\* a direct call unlabelled.label(idxs); last.b is len(idxs)
Label ==
    \E n \in 0 .. MaxB, fn_raises \in FnRaises :
        \E idxs \in SeqsOf(IdxVals(UD), n) :
            LET r == label(UD, idxs, fn_raises)
            IN  /\ _mask' = r.mask
                /\ _idx_mask' = r.idx_mask
                /\ _len' = r.len
                /\ last' = [NoCall EXCEPT !.op = "label", !.b = n, !.ok = r.ok,
                                !.err = r.err,
                                !.idxs = IF r.ok THEN idxs ELSE << >>,
                                !.valid = r.ok => ValidIdxs(idxs, _len),
                                !.dup = r.ok /\ HasDup(idxs),
                                !.stale = r.ok /\ HasStale(idxs, last.pre.idx_mask, _mask)]
                           @@ [pre |-> Pre]
                /\ UNCHANGED <<_dataset, _label_fn, _labelled, _old_labelled, e2e_b, e2e_j>>
                /\ UNCHANGED rest

\* a direct call unlabelled.reset()
Reset ==
    LET r == ud_reset(UD)
    IN  /\ _mask' = r.mask
        /\ _idx_mask' = r.idx_mask
        /\ _len' = r.len
        /\ last' = [NoCall EXCEPT !.op = "ud_reset"] @@ [pre |-> Pre]
        /\ UNCHANGED <<_dataset, _label_fn, _labelled, _old_labelled, e2e_b, e2e_j>>
        /\ UNCHANGED rest

\* what an acquisition function may do for a request of b: raise, return an array
\* of another shape (its content is never read), or return b indices
AfnOutcomes(b) ==
    {[raises |-> TRUE, idxs |-> << >>]}
        \cup {[raises |-> FALSE, idxs |-> [k \in 1 .. n |-> 0]] :
                  n \in {b + 1} \cup (IF b > 0 THEN {b - 1} ELSE {})}
        \cup {[raises |-> FALSE, idxs |-> s] : s \in SeqsOf(IdxVals(UD), b)}

\* what manager.acquire(b) does to the pool and the labelled collection
AcquireEffect(b, afn, fn_raises) ==
    LET r == acquire(DM, b, afn, fn_raises)
    IN  /\ _mask' = r.unlabelled.mask
        /\ _idx_mask' = r.unlabelled.idx_mask
        /\ _len' = r.unlabelled.len
        /\ _labelled' = r.labelled
        /\ last' = [NoCall EXCEPT !.op = "acquire", !.b = b, !.ok = r.ok,
                        !.err = r.err, !.afn_called = r.afn_called,
                        !.afn_returned = r.afn_called /\ ~afn.raises,
                        !.idxs = IF r.ok THEN afn.idxs ELSE << >>,
                        !.valid = r.ok => ValidIdxs(afn.idxs, _len),
                        !.dup = r.ok /\ HasDup(afn.idxs),
                        !.true_idxs = r.true_idxs, !.subset = r.subset]
                   @@ [pre |-> Pre]
        /\ UNCHANGED <<_dataset, _label_fn, _old_labelled>>

\* the effect of manager.acquire(b) with the given acquisition outcome
DoAcquire(b, afn, fn_raises) ==
    /\ AcquireEffect(b, afn, fn_raises)
    /\ UNCHANGED rest

\* a call manager.acquire(b)
Acquire ==
    \E b \in 0 .. MaxB, fn_raises \in FnRaises :
        \E afn \in AfnOutcomes(b) :
            /\ DoAcquire(b, afn, fn_raises)
            /\ UNCHANGED <<e2e_b, e2e_j>>

\* a call manager.reset()
DMReset ==
    LET r == dm_reset(DM)
    IN  /\ _mask' = r.unlabelled.mask
        /\ _idx_mask' = r.unlabelled.idx_mask
        /\ _len' = r.unlabelled.len
        /\ _labelled' = r.labelled
        /\ last' = [NoCall EXCEPT !.op = "dm_reset"] @@ [pre |-> Pre]
        /\ UNCHANGED <<_dataset, _label_fn, _old_labelled, e2e_b, e2e_j>>
        /\ UNCHANGED rest

\* the pool view on its own, under direct calls
Next ==
    \/ Label
    \/ Reset

Spec == Init /\ [][Next]_vars

\* the manager: the pool is changed only through it
NextDM ==
    \/ Acquire
    \/ DMReset

SpecDM == Init /\ [][NextDM]_vars

\* the end-to-end scenario: a fresh pool, an empty baseline, a loop of acquire(b)
InitE2E ==
    /\ InitUD(E2EPoolSize)
    /\ _old_labelled = << >>
    /\ _labelled = _old_labelled
    /\ last = NoCall @@ [pre |-> Pre]
    /\ e2e_b \in 1 .. MaxB
    /\ e2e_j = 0
    /\ InitRest

\* what a scorer that keeps its contract returns: b distinct indices in [0, len(pool))
ScorerResults(b) == {s \in SeqsOf(0 .. (n_unlabelled(DM) - 1), b) : Distinct(s)}

\* one more acquire(b) of the loop, while k * b <= N allows another
E2EAcquire ==
    /\ (e2e_j + 1) * e2e_b <= Len(_dataset)
    /\ \E s \in ScorerResults(e2e_b) :
           DoAcquire(e2e_b, [raises |-> FALSE, idxs |-> s], FALSE)
    /\ e2e_j' = e2e_j + 1
    /\ UNCHANGED <<_dataset, e2e_b>>

NextE2E == E2EAcquire

SpecE2E == InitE2E /\ [][NextE2E]_vars

\* ------------------------------------------------------------------ claims
\* the pool fields and the labelled collection are what they were before the last call
LastCallChangedNothing ==
    /\ _mask = last.pre.mask
    /\ _idx_mask = last.pre.idx_mask
    /\ _len = last.pre.len
    /\ _labelled = last.pre.labelled

\* C1: after construction and after any sequence of DataManager.acquire() and
\* DataManager.reset() calls, n_labelled - len(baseline) + n_unlabelled equals
\* the size of the backing pool
C1_Conservation ==
    n_labelled(DM) - Len(_old_labelled) + n_unlabelled(DM) = Len(_dataset)

C1_Witness ==
    /\ last.op = "acquire"
    /\ last.ok
    /\ last.b = MaxB
    /\ n_labelled(DM) > Len(_old_labelled) + MaxB

\* C2: in every reachable state of the pool view, its length equals the number
\* of true bits in the mask
C2_LenIsPopcount == ud_len(UD) = popcount(_mask)

\* C3: label(idxs) fails whenever a requested index is stale (read in the view
\* before an earlier label() removed its item) or is requested twice
C3_StaleOrRepeatedRejected ==
    last.op = "label" /\ last.ok => ~last.dup /\ ~last.stale

\* C4: an acquire(b) that returns gives exactly b pairwise-distinct absolute
\* indices, each in [0, N)
C4_AcquireCardinality ==
    last.op = "acquire" /\ last.ok =>
        /\ Len(last.true_idxs) = last.b
        /\ Distinct(last.true_idxs)
        /\ \A k \in 1 .. Len(last.true_idxs) :
               0 <= last.true_idxs[k] /\ last.true_idxs[k] < Len(_dataset)

\* C5: acquire() goes through only when the acquisition function returned exactly
\* b distinct indices in [0, current pool size); otherwise it fails and leaves the
\* mask, translation, pool length and labelled collection unchanged
C5_InvalidSelectionRejected ==
    last.op = "acquire" =>
        /\ last.ok => last.valid
        /\ ~last.ok => LastCallChangedNothing

\* C6: acquire(b) with b greater than the current pool size fails before the
\* acquisition function is invoked and leaves the pool and the labelled
\* collection unchanged (the pool size read as len(pool) or as the count of
\* unlabelled mask bits)
C6_OverdrawRejected ==
    last.op = "acquire" /\ (last.b > last.pre.len \/ last.b > popcount(last.pre.mask)) =>
        /\ ~last.ok
        /\ ~last.afn_called
        /\ LastCallChangedNothing

C6_Witness ==
    /\ last.op = "acquire"
    /\ last.b > last.pre.len
    /\ last.pre.len > 0
    /\ last.pre.len < Len(_dataset)

\* C7: label() is all-or-nothing: after a label(idxs) call that failed, the mask,
\* the translation and the pool length are what they were before the call
C7_LabelAllOrNothing ==
    last.op = "label" /\ ~last.ok =>
        /\ _mask = last.pre.mask
        /\ _idx_mask = last.pre.idx_mask
        /\ _len = last.pre.len

C7_Witness ==
    /\ last.op = "label"
    /\ ~last.ok
    /\ last.err = "label_fn"
    /\ last.b > 0
    /\ last.pre.len < Len(_dataset)

\* C8: after any sequence of acquisitions, DataManager.reset() returns the state
\* to that of a freshly constructed manager (mask all true, translation the
\* identity, pool length N, labelled collection the baseline), and a second
\* reset() changes nothing
C8_ResetRestoresFresh ==
    last.op = "dm_reset" =>
        /\ _mask = ones(Len(_dataset))
        /\ _idx_mask = arange(Len(_dataset))
        /\ _len = Len(_dataset)
        /\ _labelled = _old_labelled
        /\ n_labelled(DM) = BaselineSize
        /\ n_unlabelled(DM) = PoolSize
        /\ dm_reset(DM) = DM

C8_Witness ==
    /\ last.op = "dm_reset"
    /\ last.pre.len < Len(_dataset)
    /\ last.pre.labelled # _old_labelled
    /\ last.pre.mask # _mask

\* C9: labelled_indices is the ascending list of the absolute positions whose
\* mask bit is false, each of them once
C9_LabelledIndicesAscending ==
    LET li == labelled_indices(_mask)
    IN  /\ \A j, k \in 1 .. Len(li) : j < k => li[j] < li[k]
        /\ {li[k] : k \in 1 .. Len(li)} = {i \in DOMAIN _mask : ~_mask[i]}

C9_Witness ==
    /\ last.op = "label"
    /\ last.ok
    /\ Len(labelled_indices(_mask)) >= 2
    /\ popcount(_mask) >= 1

\* C10: from a fresh pool of N items and an empty baseline, after the j-th of k
\* successive acquire(b) calls with a scorer that returns b distinct valid
\* indices (k * b <= N), n_unlabelled is N - j * b and labelled_indices holds
\* j * b indices, all distinct and all in [0, N)
C10_EndToEndCounts ==
    LET li == labelled_indices(_mask)
    IN  /\ e2e_j > 0 => last.op = "acquire" /\ last.ok
        /\ n_unlabelled(DM) = Len(_dataset) - e2e_j * e2e_b
        /\ Len(li) = e2e_j * e2e_b
        /\ Distinct(li)
        /\ \A k \in 1 .. Len(li) : 0 <= li[k] /\ li[k] < Len(_dataset)

C10_Witness ==
    /\ e2e_j >= 2
    /\ e2e_b >= 2
    /\ (e2e_j + 1) * e2e_b > Len(_dataset)

\* ------------------------------------------------- indexing the pool view
\* deepest nesting of true_labels() scopes
MaxNest == 2

\* self._dataset[abs]: an (x, y) pair, or x alone when the pool has no labels
item_at(pairs, abs) == [kind |-> IF pairs THEN "pair" ELSE "feature", abs |-> abs]

\* item[0]: x of a pair (x, y); of a bare x, its first slice
first(item) ==
    [kind |-> IF item.kind = "pair" THEN "feature" ELSE "component", abs |-> item.abs]

\* a __getitem__ that hands out the first component whatever the flags
getitem_first(ud, dbg, pairs, idx) ==
    IF ~index_ok(ud.idx_mask, idx) THEN [ok |-> FALSE, kind |-> "IndexError", abs |-> 0]
    ELSE [ok |-> TRUE] @@ first(item_at(pairs, index_at(ud.idx_mask, idx)))

\* UnlabelledDataset.__getitem__(idx)
getitem(ud, dbg, pairs, idx) ==
    IF ~index_ok(ud.idx_mask, idx) THEN [ok |-> FALSE, kind |-> "IndexError", abs |-> 0]
    ELSE LET item == item_at(pairs, index_at(ud.idx_mask, idx))
         IN  IF ud.label_fn \/ dbg THEN [ok |-> TRUE] @@ item
             ELSE [ok |-> TRUE] @@ first(item)

\* a view over a pool some of whose items have been labelled, constructed with
\* or without label_fn and debug (debug with a label_fn fails the constructor's
\* assert); the pool holds (x, y) pairs exactly when no label_fn is given
InitView ==
    /\ _dataset = Pool(PoolSize)
    /\ _mask \in [0 .. (PoolSize - 1) -> BOOLEAN]
    /\ _idx_mask = nonzero(_mask)
    /\ _len = popcount(_mask)
    /\ _label_fn \in BOOLEAN
    /\ _old_labelled = Baseline(BaselineSize)
    /\ _labelled = _old_labelled
    /\ last = NoCall @@ [pre |-> Pre]
    /\ e2e_b = 0
    /\ e2e_j = 0
    /\ debug \in {d \in BOOLEAN : d => ~_label_fn}
    /\ _pairs = ~_label_fn
    /\ got = NoGet
    /\ scopes = << >>
    /\ InitAnnealerIdle
    /\ InitScorerIdle
    /\ InitFitIdle
    /\ InitExtra

\* unlabelled[idx]
GetItem ==
    \E idx \in IdxVals(UD) :
        LET r == getitem(UD, debug, _pairs, idx)
        IN  /\ got' = [op |-> "getitem", idx |-> idx, debug |-> debug, ok |-> r.ok,
                       kind |-> r.kind, abs |-> r.abs]
            /\ UNCHANGED <<pool, debug, _pairs, scopes, annealer, scorer, fit, extra>>

\* true_labels() (tmp_debug is the same method) up to its yield: the flag
\* is set, and the generator is suspended in the branch that will clear it
\* (resets) or in the branch that will not
true_labels_enter(dbg) == [debug |-> TRUE, frame |-> [resets |-> ~dbg]]

\* an exit that clears the flag whatever it was on entry
true_labels_exit_clear(dbg, frame) == FALSE

\* true_labels() resumed after its yield: self.debug = False in the branch
\* that set it, nothing in the other
true_labels_exit(dbg, frame) == IF frame.resets THEN FALSE ELSE dbg

\* true_labels() when the body of the scope raises: the exception is thrown
\* into the generator at its yield, which no try/finally encloses, and leaves
\* it without running any statement
true_labels_throw(dbg, frame) == dbg

\* entering `with unlabelled.true_labels():` runs the generator up to its yield;
\* the scope remembers which branch it is suspended in, and (was) the flag the
\* scope was entered with
EnterTrueLabels ==
    /\ Len(scopes) < MaxNest
    /\ LET r == true_labels_enter(debug)
       IN  /\ scopes' = Append(scopes, r.frame @@ [was |-> debug])
           /\ debug' = r.debug
    /\ UNCHANGED <<pool, _pairs, got, annealer, scorer, fit, extra>>

\* leaving the innermost scope normally resumes the generator after its yield
ExitTrueLabels ==
    /\ Len(scopes) > 0
    /\ debug' = true_labels_exit(debug, scopes[Len(scopes)])
    /\ scopes' = SubSeq(scopes, 1, Len(scopes) - 1)
    /\ exited' = [op |-> "exit", was |-> scopes[Len(scopes)].was, debug |-> debug']
    /\ UNCHANGED <<pool, _pairs, got, annealer, scorer, fit, dropout, clone, losses>>

\* the body of the innermost scope raises and the exception leaves the scope
\* (it may be caught inside an enclosing scope or leave that one too)
RaiseInTrueLabels ==
    /\ Len(scopes) > 0
    /\ debug' = true_labels_throw(debug, scopes[Len(scopes)])
    /\ scopes' = SubSeq(scopes, 1, Len(scopes) - 1)
    /\ exited' = [op |-> "raise", was |-> scopes[Len(scopes)].was, debug |-> debug']
    /\ UNCHANGED <<pool, _pairs, got, annealer, scorer, fit, dropout, clone, losses>>

NextView == GetItem \/ EnterTrueLabels \/ ExitTrueLabels \/ RaiseInTrueLabels

SpecView == InitView /\ [][NextView]_vars

\* the last call indexed the view at a valid logical index
GotValid ==
    /\ got.op = "getitem"
    /\ 0 <= got.idx
    /\ got.idx < _len

\* C11 as stated: at a valid logical index the view returns the pair
\* (feature, label) if the raw flag is set or no label_fn was configured, and
\* the feature alone otherwise
C11_PairUnlessLabelFn ==
    GotValid =>
        /\ got.ok
        /\ got.kind = (IF got.debug \/ ~_label_fn THEN "pair" ELSE "feature")

\* C11: at a valid logical index i the view returns the pool item at the
\* absolute index the translation gives for i: the pair (feature, label) if
\* the raw flag is set and no label_fn was configured, the feature alone in
\* every other case, a pool without label_fn and with the flag off included
C11_PairOnlyWhenRaw ==
    GotValid =>
        /\ got.ok
        /\ got.abs = _idx_mask[got.idx + 1]
        /\ got.kind = (IF got.debug /\ ~_label_fn THEN "pair" ELSE "feature")

C11_Witness ==
    /\ GotValid
    /\ ~_label_fn
    /\ ~got.debug
    /\ got.kind = "feature"
    /\ got.abs # got.idx

\* ---------------------------------------------------------------- Annealer
\* PLTrainer.fit builds its annealer as Annealer(step=1, T1=0, T2=700)
FitStep == 1
FitT1 == 0
FitT2 == 700

\* largest T1 of the small schedules, and their longest ramp T2 - T1
MaxT1 == 2
MaxRamp == 3
\* how far past T2 the counter is driven
MaxOverrun == 300

\* fractions <<numerator, denominator>> with a positive denominator
RatEq(a, b) == a[1] * b[2] = b[1] * a[2]

RatLe(a, b) == a[1] * b[2] <= b[1] * a[2]

\* a ramp measured against T2 instead of T2 - T1
weight_over_T2(a) ==
    IF a.step < a.T1 THEN <<0, 1>>
    ELSE IF a.step > a.T2 THEN a.alpha
    ELSE <<(a.step - a.T1) * a.alpha[1], a.T2 * a.alpha[2]>>

\* a ramp that runs down from alpha
weight_falling(a) ==
    IF a.step < a.T1 THEN <<0, 1>>
    ELSE IF a.step > a.T2 THEN a.alpha
    ELSE <<(a.T2 - a.step) * a.alpha[1], (a.T2 - a.T1) * a.alpha[2]>>

\* Annealer.weight: ((step - T1) / (T2 - T1)) * alpha between T1 and T2
weight(a) ==
    IF a.step < a.T1 THEN <<0, 1>>
    ELSE IF a.step > a.T2 THEN a.alpha
    ELSE <<(a.step - a.T1) * a.alpha[1], (a.T2 - a.T1) * a.alpha[2]>>

\* Annealer.step
annealer_step(a) == [a EXCEPT !.step = a.step + 1]

\* the values of alpha tried: 0, 1/2, 3.0 (the default) and a negative one
Alphas == {<<0, 1>>, <<1, 2>>, <<DefaultAlpha, 1>>, <<-1, 1>>}

\* the schedules tried, all with T1 < T2: the small ones, the constructor's
\* default and the one fit() uses
Schedules ==
    {<<t1, t1 + d>> : t1 \in 0 .. MaxT1, d \in 1 .. MaxRamp}
        \cup {<<DefaultT1, DefaultT2>>, <<FitT1, FitT2>>}

\* Annealer(step, T1, T2, alpha)
InitAnnealer ==
    /\ InitPoolAtRest
    /\ InitExtra
    /\ InitScorerIdle
    /\ InitFitIdle
    /\ \E step \in {DefaultStep, FitStep}, sch \in Schedules, alpha \in Alphas :
           annealer = NewAnnealer(step, sch[1], sch[2], alpha)

\* a call annealer.step()
AnnealerStep ==
    /\ annealer.step < annealer.T2 + MaxOverrun
    /\ annealer' = annealer_step(annealer)
    /\ UNCHANGED <<pool, debug, _pairs, got, scopes, scorer, fit, extra>>

NextAnnealer == AnnealerStep

SpecAnnealer == InitAnnealer /\ [][NextAnnealer]_vars

\* the annealer is the one of the spec's example: T1 = 0, T2 = 700, alpha = 3.0
IsExample(a) == a.T1 = 0 /\ a.T2 = 700 /\ a.alpha = <<3, 1>>

\* C12: the weight is 0 when step < T1, alpha when step > T2 and
\* alpha * (step - T1) / (T2 - T1) otherwise, for every step >= 0 and T1 < T2;
\* with T1 = 0, T2 = 700, alpha = 3.0 it is 0 at step 0, 1.5 at step 350 and
\* 3.0 at steps 700 and 1000
C12_PiecewiseSchedule ==
    LET a == annealer
        w == weight(a)
    IN  /\ w[2] > 0
        /\ a.step < a.T1 => w[1] = 0
        /\ a.step > a.T2 => RatEq(w, a.alpha)
        /\ (a.T1 <= a.step /\ a.step <= a.T2) =>
               w[1] * (a.T2 - a.T1) * a.alpha[2] = a.alpha[1] * (a.step - a.T1) * w[2]
        /\ IsExample(a) =>
               /\ a.step = 0 => RatEq(w, <<0, 1>>)
               /\ a.step = 350 => RatEq(w, <<3, 2>>)
               /\ a.step = 700 => RatEq(w, <<3, 1>>)
               /\ a.step = 1000 => RatEq(w, <<3, 1>>)

C12_Witness ==
    /\ IsExample(annealer)
    /\ annealer.step = 1000

\* C13: for T1 < T2 and alpha >= 0 the weight after one more step() is at
\* least the weight before it, and the weight never exceeds alpha
C13_MonotonicBelowAlpha ==
    annealer.alpha[1] >= 0 =>
        /\ RatLe(weight(annealer), weight(annealer_step(annealer)))
        /\ RatLe(weight(annealer), annealer.alpha)

C13_Witness ==
    /\ annealer.alpha[1] > 0
    /\ annealer.T1 > 0
    /\ annealer.T1 < annealer.step
    /\ annealer.step < annealer.T2
    /\ ~RatEq(weight(annealer), weight(annealer_step(annealer)))

\* ------------------------------------------------------------ PLTrainer.fit
\* the largest epoch limit of each stage
MaxEpoch1 == 3
MaxEpoch2 == 3
\* the largest patience; 0 stands for none (None or 0)
MaxPatience == 2
\* most batches of the labelled loader; the pool loader has 1 batch or MaxPoolBatches
MaxLoader == 2
MaxPoolBatches == 17
\* ITERATION_COMPLETED(every=50)
AnnealEvery == 50

TrainKeys == {"train_acc", "train_loss"}

ValKeys == {"val_acc", "val_loss"}

\* history = defaultdict(list): a key never appended to reads as the empty list
EmptyHistory == [k \in TrainKeys \cup ValKeys |-> << >>]

\* history[k].append(v) for every k of keys
append_all(h, keys, v) == [k \in DOMAIN h |-> IF k \in keys THEN Append(h[k], v) ELSE h[k]]

\* WraparoundLoader.__init__: a traversal of the len batches of ds, none drawn yet
wl_new(len) == [len |-> len, pos |-> 0]

\* a __next__ that starts the new traversal without moving in it
wl_next_stuck(w) ==
    IF w.pos < w.len THEN [ok |-> TRUE, batch |-> w.pos, wl |-> [w EXCEPT !.pos = w.pos + 1]]
    ELSE IF w.len = 0 THEN [ok |-> FALSE, batch |-> 0, wl |-> [w EXCEPT !.pos = 0]]
    ELSE [ok |-> TRUE, batch |-> 0, wl |-> [w EXCEPT !.pos = 0]]

\* WraparoundLoader.__next__: the next batch of the traversal; when it is
\* exhausted, the first batch of a new one (StopIteration if that is empty too)
wl_next(w) ==
    IF w.pos < w.len THEN [ok |-> TRUE, batch |-> w.pos, wl |-> [w EXCEPT !.pos = w.pos + 1]]
    ELSE IF w.len = 0 THEN [ok |-> FALSE, batch |-> 0, wl |-> [w EXCEPT !.pos = 0]]
    ELSE [ok |-> TRUE, batch |-> 0, wl |-> [w EXCEPT !.pos = 1]]

\* the early stopper is in use: `val_loader is not None and patience`
stops_early(f) == f.val /\ f.patience # 0

\* a stage 2 that reloads whenever reload_best is set
reloads_best_always(f) == f.reload_best

\* `val_loader is not None and patience and reload_best`
reloads_best(f) == f.val /\ f.patience # 0 /\ f.reload_best

\* a fit() that returns after stage 1
next_stage_skip(f) ==
    CASE f.pc = "init" -> "stage1"
      [] f.pc = "stage1" -> "done"
      [] f.pc = "stage2" -> IF reloads_best(f) THEN "reload" ELSE "done"
      [] f.pc = "reload" -> "done"

\* the order of the statements of fit(): stage 1, stage 2, the reload if
\* configured, the return
next_stage(f) ==
    CASE f.pc = "init" -> "stage1"
      [] f.pc = "stage1" -> "stage2"
      [] f.pc = "stage2" -> IF reloads_best(f) THEN "reload" ELSE "done"
      [] f.pc = "reload" -> "done"

\* a stage 2 that is given an optimizer of its own
ssl_optimizer_fresh(f) == [heap |-> Append(f.heap, 0), id |-> Len(f.heap) + 1]

\* the optimizer handed to create_semisupervised_trainer: supervised_trainer._optim
ssl_optimizer(f) == [heap |-> f.heap, id |-> f.sup_optim]

\* a combined history with the stage-2 entries in front
combine_history_reversed(sup, history) == [k \in DOMAIN sup |-> history[k] \o sup[k]]

\* for k, v in supervised_history.items(): v.extend(history[k])
combine_history(sup, history) == [k \in DOMAIN sup |-> sup[k] \o history[k]]

\* an evaluation seen by an EarlyStopper: on an improvement (the first
\* evaluation is one) it snapshots the parameters, after `patience`
\* evaluations in a row without one it terminates the run
early_stopper(f, improved) ==
    IF improved \/ f.best = -1
        THEN [f EXCEPT !.best = f.params, !.bad = 0]
    ELSE [f EXCEPT !.bad = f.bad + 1, !.terminate = f.bad + 1 >= f.patience]

\* the model and the autograd switch as _step sees them: the module's mode,
\* whether gradients are recorded, and the calls of the step so far
NewModel == [training |-> TRUE, grad |-> TRUE, prev |-> TRUE, log |-> << >>]

\* model.eval()
model_eval(m) == [m EXCEPT !.training = FALSE, !.log = Append(@, [call |-> "eval"])]

\* model.train()
model_train(m) == [m EXCEPT !.training = TRUE, !.log = Append(@, [call |-> "train"])]

\* model(x): the pass runs in the mode and under the autograd switch of the moment
forward(m, x) ==
    [m EXCEPT !.log = Append(@, [call |-> "forward", x |-> x, training |-> m.training,
                                 grad |-> m.grad])]

\* with torch.no_grad(): entered, left
no_grad_enter(m) == [m EXCEPT !.prev = m.grad, !.grad = FALSE]
no_grad_exit(m) == [m EXCEPT !.grad = m.prev]

\* pseudo-labels taken without switching the model to inference mode
pseudo_labels_training(m) == no_grad_exit(forward(no_grad_enter(m), "pseudo"))

\* with torch.no_grad(): model.eval(); preds = model(x)
pseudo_labels(m) == no_grad_exit(forward(model_eval(no_grad_enter(m)), "pseudo"))

\* model.train(); u_loss = uloss_fn(model(x), preds); model.train()
unlabelled_pass(m) == model_train(forward(model_train(m), "pool"))

\* l_loss = lloss_fn(model(x), y) on the batch drawn from train_iterable
labelled_pass(m) == forward(m, "train")

\* optimizer.zero_grad(); loss.backward(); optimizer.step()
optimizer_step(m) == [m EXCEPT !.log = Append(@, [call |-> "optimizer.step"])]

\* the step up to the draw from train_iterable
until_draw(m) == unlabelled_pass(pseudo_labels([m EXCEPT !.log = << >>]))

\* a step that applies the update before it looks at the loss
_step_late_assert(f, finite) ==
    LET d == wl_next(f.wl)
        f1 == [f EXCEPT !.wl = d.wl, !.draws = @ + 1, !.batch = d.batch, !.tried = @ + 1,
                        !.found = IF @ = -1 THEN f.heap[f.ssl_optim] ELSE @,
                        !.before = [heap |-> f.heap, params |-> f.params,
                                    updates |-> f.updates],
                        !.model = until_draw(f.model)]
        f2 == [f1 EXCEPT !.heap[f.ssl_optim] = @ + 1, !.updates = @ + 1,
                         !.params = f.updates + 1, !.ssl_steps = @ + 1,
                         !.it = @ + 1, !.iteration = @ + 1,
                         !.model = optimizer_step(labelled_pass(f1.model))]
    IN  IF ~d.ok
            THEN [f1 EXCEPT !.pc = "failed", !.stages = Append(@, "failed"),
                            !.err = "StopIteration"]
        ELSE IF ~finite
            THEN [f2 EXCEPT !.pc = "failed", !.stages = Append(@, "failed"),
                            !.err = "AssertionError"]
        ELSE f2

\* create_semisupervised_trainer._step on the next pool batch, finite telling
\* whether l_loss + annealer.weight * u_loss comes out finite: the pseudo-labels
\* and the two forward passes, one batch drawn from train_iterable, the assert,
\* then zero_grad, backward and optimizer.step; an exception leaves the engine
\* and fit()
_step(f, finite) ==
    LET d == wl_next(f.wl)
        f1 == [f EXCEPT !.wl = d.wl, !.draws = @ + 1, !.batch = d.batch, !.tried = @ + 1,
                        !.found = IF @ = -1 THEN f.heap[f.ssl_optim] ELSE @,
                        !.before = [heap |-> f.heap, params |-> f.params,
                                    updates |-> f.updates],
                        !.model = until_draw(f.model)]
    IN  IF ~d.ok
            THEN [f1 EXCEPT !.pc = "failed", !.stages = Append(@, "failed"),
                            !.err = "StopIteration"]
        ELSE IF ~finite
            THEN [f1 EXCEPT !.pc = "failed", !.stages = Append(@, "failed"),
                            !.err = "AssertionError",
                            !.model = labelled_pass(f1.model)]
        ELSE [f1 EXCEPT !.heap[f.ssl_optim] = @ + 1, !.updates = @ + 1,
                        !.params = f.updates + 1, !.ssl_steps = @ + 1,
                        !.it = @ + 1, !.iteration = @ + 1,
                        !.model = optimizer_step(labelled_pass(f1.model))]

\* _log_metrics at the end of stage-2 epoch e: the train metrics, and the
\* validation metrics if there is a val_loader
_log_metrics(f, e) ==
    LET h == append_all(f.history, TrainKeys, <<2, e>>)
    IN  [f EXCEPT !.history = IF f.val THEN append_all(h, ValKeys, <<2, e>>) ELSE h]

\* ssl_trainer.run() has returned: the epochs are done or the early stopper
\* has terminated the run
run_over(f) ==
    /\ f.pc = "stage2"
    /\ f.it = 0
    /\ f.epoch >= 1
    /\ f.epoch = f.epoch2 \/ f.terminate

\* a call fit(train_loader, pool_loader, val_loader, epochs, soft, patience,
\* reload_best) about to start: val says whether val_loader is given, L and P
\* are the batches of train_loader and pool_loader; heap holds the state of
\* every optimizer created (the updates it has applied), params the version of
\* the model's parameters (0 at first, then the number of the update that
\* produced them)
NewFit(val, patience, reload_best, epoch1, epoch2, L, P) ==
    [pc |-> "init", val |-> val, patience |-> patience, reload_best |-> reload_best,
     epoch1 |-> epoch1, epoch2 |-> epoch2, L |-> L, P |-> P,
     heap |-> << >>, sup_optim |-> 0, ssl_optim |-> 0, params |-> 0, updates |-> 0,
     epoch |-> 0, it |-> 0, iteration |-> 0,
     best |-> -1, bad |-> 0, terminate |-> FALSE,
     supervised_history |-> << >>, history |-> EmptyHistory, returned |-> << >>,
     wl |-> wl_new(0), draws |-> 0, batch |-> 0,
     stages |-> <<"init">>, sup_steps |-> 0, ssl_steps |-> 0, tried |-> 0,
     err |-> "", epochs1 |-> 0, stopped1 |-> FALSE, left |-> 0, found |-> -1, before |-> << >>, reloads |-> 0, final |-> -1,
     model |-> NewModel, used |-> << >>]

InitFit ==
    /\ InitPoolAtRest
    /\ InitExtra
    /\ InitAnnealerIdle
    /\ InitScorerIdle
    /\ \E val, reload_best \in BOOLEAN, patience \in 0 .. MaxPatience,
          epoch1 \in 1 .. MaxEpoch1, epoch2 \in 1 .. MaxEpoch2,
          L \in 1 .. MaxLoader, P \in {1, MaxPoolBatches} :
           fit = NewFit(val, patience, reload_best, epoch1, epoch2, L, P)

fitFrame == <<pool, debug, _pairs, got, scopes, scorer, extra>>

\* Trainer(model, loss, optimiser, ...) and the start of its fit(): the trainer
\* makes the optimizer it trains with
Stage1Begin ==
    /\ fit.pc = "init"
    /\ fit' = [fit EXCEPT !.pc = next_stage(fit), !.stages = Append(@, next_stage(fit)),
                          !.heap = <<0>>, !.sup_optim = 1,
                          !.supervised_history =
                              [k \in TrainKeys \cup (IF fit.val THEN ValKeys ELSE {}) |-> << >>]]
    /\ UNCHANGED <<fitFrame, annealer>>

\* one supervised step of stage 1: an update of the parameters by the optimizer
Stage1Step ==
    /\ fit.pc = "stage1"
    /\ fit.epoch < fit.epoch1
    /\ ~fit.terminate
    /\ fit.it < fit.L
    /\ fit' = [fit EXCEPT !.it = @ + 1, !.sup_steps = @ + 1, !.updates = @ + 1,
                          !.params = fit.updates + 1,
                          !.heap[fit.sup_optim] = @ + 1]
    /\ UNCHANGED <<fitFrame, annealer>>

\* the end of a stage-1 epoch: the metrics are logged, and the early stopper,
\* if in use, sees the validation result
Stage1EpochEnd ==
    /\ fit.pc = "stage1"
    /\ fit.it = fit.L
    /\ \E improved \in BOOLEAN :
           LET e == fit.epoch + 1
               f1 == [fit EXCEPT !.epoch = e, !.it = 0,
                                 !.supervised_history = append_all(@, DOMAIN @, <<1, e>>)]
           IN  fit' = IF stops_early(fit) THEN early_stopper(f1, improved) ELSE f1
    /\ UNCHANGED <<fitFrame, annealer>>

\* supervised_trainer.fit() returns, after reloading its best snapshot if told
\* to, and fit() sets up stage 2: an empty history, the annealer, the
\* semi-supervised trainer over a WraparoundLoader and the early stopper
Stage1End ==
    /\ fit.pc = "stage1"
    /\ fit.it = 0
    /\ fit.epoch >= 1
    /\ fit.epoch = fit.epoch1 \/ fit.terminate
    /\ LET o == ssl_optimizer(fit)
       IN  fit' = [fit EXCEPT !.pc = next_stage(fit), !.stages = Append(@, next_stage(fit)),
                              !.params = IF fit.reload_best /\ stops_early(fit)
                                             THEN fit.best ELSE @,
                              !.epochs1 = fit.epoch, !.stopped1 = fit.terminate,
                              !.left = fit.heap[fit.sup_optim],
                              !.heap = o.heap, !.ssl_optim = o.id,
                              !.history = EmptyHistory, !.wl = wl_new(fit.L),
                              !.epoch = 0, !.it = 0, !.iteration = 0,
                              !.best = -1, !.bad = 0, !.terminate = FALSE]
    /\ annealer' = NewAnnealer(FitStep, FitT1, FitT2, <<DefaultAlpha, 1>>)
    /\ UNCHANGED fitFrame

\* a handler that counts the iterations of the running epoch
anneal_due_in_epoch(f) == f.it % AnnealEvery = 0

\* Events.ITERATION_COMPLETED(every=50): the engine's iteration count, which
\* runs on across the epochs, is a multiple of 50
anneal_due(f) == f.iteration % AnnealEvery = 0

\* loss = l_loss + annealer.weight * u_loss: the counter and the weight read
loss_weight(a) == [step |-> a.step, weight |-> weight(a)]

\* one iteration of ssl_trainer: _step, then the ITERATION_COMPLETED handler
\* that steps the annealer every 50 iterations
SslStep ==
    /\ fit.pc = "stage2"
    /\ fit.epoch < fit.epoch2
    /\ ~fit.terminate
    /\ fit.it < fit.P
    /\ \E finite \in BOOLEAN :
           /\ LET r == _step(fit, finite)
              IN  fit' = IF r.err = "StopIteration" THEN r
                         ELSE [r EXCEPT !.used = loss_weight(annealer)]
           /\ annealer' = IF fit'.pc = "stage2" /\ anneal_due(fit')
                              THEN annealer_step(annealer) ELSE annealer
    /\ UNCHANGED fitFrame

\* EPOCH_COMPLETED of ssl_trainer: _log_metrics, whose validation run the
\* early stopper, if in use, listens to
SslEpochEnd ==
    /\ fit.pc = "stage2"
    /\ fit.it = fit.P
    /\ \E improved \in BOOLEAN :
           LET e == fit.epoch + 1
               f1 == _log_metrics([fit EXCEPT !.epoch = e, !.it = 0], e)
           IN  fit' = IF stops_early(fit) THEN early_stopper(f1, improved) ELSE f1
    /\ UNCHANGED <<fitFrame, annealer>>

\* es.reload_best() after the run
ReloadBest ==
    /\ run_over(fit)
    /\ next_stage(fit) = "reload"
    /\ fit' = [fit EXCEPT !.pc = "reload", !.stages = Append(@, "reload"),
                          !.params = fit.best, !.reloads = @ + 1]
    /\ UNCHANGED <<fitFrame, annealer>>

\* the histories are combined and fit() returns
Return ==
    /\ \/ run_over(fit) /\ next_stage(fit) = "done"
       \/ fit.pc = "reload"
    /\ fit' = [fit EXCEPT !.pc = "done", !.stages = Append(@, "done"),
                          !.returned = combine_history(fit.supervised_history, fit.history),
                          !.final = fit.params]
    /\ UNCHANGED <<fitFrame, annealer>>

NextFit ==
    \/ Stage1Begin
    \/ Stage1Step
    \/ Stage1EpochEnd
    \/ Stage1End
    \/ SslStep
    \/ SslEpochEnd
    \/ ReloadBest
    \/ Return

SpecFit == InitFit /\ [][NextFit]_vars

\* stage 2 has begun
InStage2 == fit.pc \in {"stage2", "reload", "done", "failed"}

StageOrder ==
    {<<"init", "stage1">>, <<"stage1", "stage2">>, <<"stage2", "reload">>,
     <<"stage2", "done">>, <<"reload", "done">>, <<"stage2", "failed">>}

\* C14: fit() goes through INIT, SUPERVISED_WARMUP, SEMISUPERVISED, optionally
\* RELOAD_BEST, and DONE in that order (a failing step ends it in stage 2);
\* a semi-supervised step is taken only after stage 1 has finished, by its
\* epoch limit or by early stopping, fit() never returns without having run
\* stage 2, and a supervised-only step is taken only in stage 1
C14_StageOrder ==
    [][/\ fit'.pc # fit.pc => <<fit.pc, fit'.pc>> \in StageOrder
       /\ fit'.sup_steps # fit.sup_steps => fit.pc = "stage1" /\ fit.tried = 0
       /\ fit'.tried # fit.tried =>
              /\ fit.pc = "stage2"
              /\ fit.epochs1 >= 1
              /\ fit.epochs1 = fit.epoch1 \/ fit.stopped1
              /\ fit'.sup_steps = fit.sup_steps
       /\ fit'.pc = "done" => fit'.ssl_steps >= 1]_vars

C14_Witness ==
    /\ fit.stages = <<"init", "stage1", "stage2", "reload", "done">>
    /\ fit.stopped1
    /\ fit.epochs1 < fit.epoch1
    /\ fit.sup_steps >= 2
    /\ fit.ssl_steps >= 2

\* C15: stage 2 steps the very optimizer stage 1 stepped: no other optimizer
\* exists, the state the first semi-supervised step finds is the one the last
\* stage-1 step left, and every update of both stages is in it
C15_SameOptimizer ==
    InStage2 =>
        /\ fit.ssl_optim = fit.sup_optim
        /\ Len(fit.heap) = 1
        /\ fit.left = fit.sup_steps
        /\ fit.found # -1 => fit.found = fit.left
        /\ fit.heap[fit.ssl_optim] = fit.sup_steps + fit.ssl_steps

C15_Witness ==
    /\ fit.pc = "stage2"
    /\ fit.left >= 2
    /\ fit.found = fit.left
    /\ fit.ssl_steps >= 2

\* C16: a semi-supervised step whose total loss is not finite fails with the
\* optimizer, the parameters and the number of updates as they were before it,
\* and nothing runs after it: no later step, no retry
C16_NonFiniteFatal ==
    fit.pc = "failed" =>
        /\ fit.err = "AssertionError"
        /\ fit.heap = fit.before.heap
        /\ fit.params = fit.before.params
        /\ fit.updates = fit.before.updates
        /\ fit.tried = fit.ssl_steps + 1
        /\ ~ENABLED NextFit

C16_Witness ==
    /\ fit.pc = "failed"
    /\ fit.ssl_steps >= 2
    /\ fit.epoch >= 1

\* C17: over a labelled loader of L >= 1 batches the k-th draw (k = 0, 1, ...)
\* returns batch k mod L, no draw signals exhaustion, every semi-supervised
\* step draws exactly one batch, and the count runs on across pool epochs
C17_CyclicDraws ==
    InStage2 =>
        /\ fit.err # "StopIteration"
        /\ fit.draws = fit.tried
        /\ fit.draws > 0 => fit.batch = (fit.draws - 1) % fit.L

C17_Witness ==
    /\ fit.pc = "stage2"
    /\ fit.epoch >= 1
    /\ fit.it = 1
    /\ fit.batch # 0
    /\ fit.draws > fit.L

\* n1 entries of stage 1 followed by n2 entries of stage 2, each in epoch order
Chronological(n1, n2) == [i \in 1 .. (n1 + n2) |-> IF i <= n1 THEN <<1, i>> ELSE <<2, i - n1>>]

\* C18: during stage 2 the history holds one train entry, and one validation
\* entry if there is a validation loader, per completed epoch and nothing
\* else; the history fit() returns holds, for every key, the stage-1 entries
\* in epoch order followed by the stage-2 entries in epoch order
C18_CombinedHistory ==
    /\ fit.pc \in {"stage2", "reload"} =>
           /\ \A k \in TrainKeys : fit.history[k] = [e \in 1 .. fit.epoch |-> <<2, e>>]
           /\ \A k \in ValKeys :
                  fit.history[k] = [e \in 1 .. (IF fit.val THEN fit.epoch ELSE 0) |-> <<2, e>>]
    /\ fit.pc = "done" =>
           /\ DOMAIN fit.returned = TrainKeys \cup (IF fit.val THEN ValKeys ELSE {})
           /\ \A k \in DOMAIN fit.returned :
                  fit.returned[k] = Chronological(fit.epochs1, fit.epoch)

C18_Witness ==
    /\ fit.pc = "done"
    /\ fit.val
    /\ fit.epochs1 >= 2
    /\ fit.epoch >= 2
    /\ fit.epoch < fit.epoch2
    /\ fit.ssl_steps > fit.epoch

\* C19: stage 2 reloads the best snapshot once, after its last step, when
\* reload_best is set, a validation loader is given and patience is not zero;
\* otherwise it reloads nothing and the model ends with its last parameters
C19_ReloadOnce ==
    LET wanted == fit.reload_best /\ fit.val /\ fit.patience # 0
    IN  /\ fit.pc \in {"init", "stage1", "stage2", "failed"} => fit.reloads = 0
        /\ fit.pc = "reload" =>
               /\ wanted
               /\ fit.reloads = 1
               /\ fit.params = fit.best
               /\ ~ENABLED SslStep
        /\ fit.pc = "done" =>
               /\ fit.reloads = (IF wanted THEN 1 ELSE 0)
               /\ fit.final = (IF wanted THEN fit.best ELSE fit.updates)

C19_Witness ==
    /\ fit.pc = "done"
    /\ fit.reloads = 1
    /\ fit.final # fit.updates
    /\ fit.epoch = fit.epoch2

\* ------------------------------------------------- acquisition functions
\* longest pool view scored, and largest score (scores are 0 .. MaxScore)
MaxPoolView == 3
MaxScore == 2

\* the orders of the logical indices 0 .. n - 1
Perms(n) == {p \in [1 .. n -> 0 .. (n - 1)] : Distinct(p)}

\* an argsort that puts the lowest score first
argsorts_ascending(scores) ==
    {p \in Perms(Len(scores)) :
        \A i, j \in 1 .. Len(p) : i < j => scores[p[i] + 1] <= scores[p[j] + 1]}

\* torch.argsort(scores, descending=True): an order of the indices along which
\* the scores never rise; which of two equal scores comes first is not fixed
argsorts(scores) ==
    {p \in Perms(Len(scores)) :
        \A i, j \in 1 .. Len(p) : i < j => scores[p[i] + 1] >= scores[p[j] + 1]}

\* result[:b]
take(result, b) == SubSeq(result, 1, IF b < Len(result) THEN b ELSE Len(result))

\* a scorer that skips the asserts on its scores
top_b_unchecked(scores, finite, b, order) == [ok |-> TRUE, result |-> take(order, b)]

\* the end of MaxEnt.__call__ and LastKL.__call__: the asserts on the scores,
\* then the first b indices of the argsort
top_b(scores, finite, b, order) ==
    IF ~finite THEN [ok |-> FALSE, result |-> << >>]
    ELSE [ok |-> TRUE, result |-> take(order, b)]

\* a scorer about to be called on a pool view of n items for b of them; its
\* scores, one per item, are all finite or not
InitScorer ==
    /\ InitPoolAtRest
    /\ InitExtra
    /\ InitAnnealerIdle
    /\ InitFitIdle
    /\ \E n \in 1 .. MaxPoolView :
           \E scores \in [1 .. n -> 0 .. MaxScore], finite \in BOOLEAN, b \in 0 .. (n + 1) :
               scorer = [NoScorer EXCEPT !.op = "args", !.scores = scores,
                                         !.finite = finite, !.b = b]

\* the call
Score(name) ==
    /\ scorer.op = "args"
    /\ \E order \in argsorts(scorer.scores) :
           LET r == top_b(scorer.scores, scorer.finite, scorer.b, order)
           IN  scorer' = [scorer EXCEPT !.op = name, !.ok = r.ok, !.result = r.result]
    /\ UNCHANGED <<pool, debug, _pairs, got, scopes, annealer, fit, extra>>

\* MaxEnt()(X_pool, b): the scores are the predictive entropies
MaxEntCall == Score("MaxEnt")

\* LastKL()(X_pool, b): the scores are the KL divergences of the last epochs
LastKLCall == Score("LastKL")

NextScorer == MaxEntCall \/ LastKLCall

SpecScorer == InitScorer /\ [][NextScorer]_vars

\* the score of logical index i in the last call
ScoreOf(i) == scorer.scores[i + 1]

\* C20: for b <= len(pool view) a scorer (MaxEnt, LastKL) returns exactly b
\* logical indices, pairwise distinct, each in [0, len(pool view)), in an order
\* along which the scores never rise, and no index left out scores higher than
\* one returned
C20_TopB ==
    LET n == Len(scorer.scores)
        r == scorer.result
        sel == {r[k] : k \in 1 .. Len(r)}
    IN  (scorer.op \in {"MaxEnt", "LastKL"} /\ scorer.ok /\ scorer.b <= n) =>
            /\ Len(r) = scorer.b
            /\ Distinct(r)
            /\ sel \subseteq 0 .. (n - 1)
            /\ \A i, j \in 1 .. Len(r) : i < j => ScoreOf(r[i]) >= ScoreOf(r[j])
            /\ \A u \in (0 .. (n - 1)) \ sel : \A v \in sel : ScoreOf(u) <= ScoreOf(v)

C20_Witness ==
    /\ scorer.op = "LastKL"
    /\ scorer.ok
    /\ scorer.b = 2
    /\ Len(scorer.scores) = 3
    /\ Len(scorer.result) = 2
    /\ ScoreOf(scorer.result[1]) > ScoreOf(scorer.result[2])
    /\ \E u \in 0 .. 2 : u \notin {scorer.result[1], scorer.result[2]}
                            /\ ScoreOf(u) = ScoreOf(scorer.result[2])
    /\ scorer.result[1] > scorer.result[2]

\* ------------------------------------- acquire() with a scorer as its a_fn
\* a manager whose pool has had some items acquired, about to acquire b more
\* with a scorer whose scores, one per item left, are all finite or not
InitScored ==
    /\ _dataset = Pool(PoolSize)
    /\ _mask \in [0 .. (PoolSize - 1) -> BOOLEAN]
    /\ _idx_mask = nonzero(_mask)
    /\ _len = popcount(_mask)
    /\ _len >= 1
    /\ _label_fn \in BOOLEAN
    /\ _old_labelled = Baseline(BaselineSize)
    /\ _labelled = _old_labelled \o labelled_indices(_mask)
    /\ last = NoCall @@ [pre |-> Pre]
    /\ e2e_b = 0
    /\ e2e_j = 0
    /\ InitFlags
    /\ InitExtra
    /\ InitAnnealerIdle
    /\ InitFitIdle
    /\ \E scores \in [1 .. _len -> 0 .. MaxScore], finite \in BOOLEAN, b \in 0 .. (MaxB + 1) :
           scorer = [NoScorer EXCEPT !.op = "args", !.scores = scores,
                                     !.finite = finite, !.b = b]

\* manager.acquire(b) with the scorer as acquisition function: the scorer is
\* called on the pool view once the assert on b has passed
ScoredAcquire(name) ==
    /\ last.op = "init"
    /\ \E order \in argsorts(scorer.scores), fn_raises \in FnRaises :
           LET r == top_b(scorer.scores, scorer.finite, scorer.b, order)
           IN  /\ AcquireEffect(scorer.b, [raises |-> ~r.ok, idxs |-> r.result], fn_raises)
               /\ scorer' = IF acquire_pre(DM, scorer.b)
                                THEN [scorer EXCEPT !.op = name, !.ok = r.ok,
                                                    !.result = r.result]
                            ELSE scorer
    /\ UNCHANGED <<e2e_b, e2e_j, debug, _pairs, got, scopes, annealer, fit, extra>>

MaxEntAcquire == ScoredAcquire("MaxEnt")

LastKLAcquire == ScoredAcquire("LastKL")

NextScored == MaxEntAcquire \/ LastKLAcquire

SpecScored == InitScored /\ [][NextScored]_vars

\* C21: when some score is not finite the scorer raises instead of returning
\* a selection, and the acquire() that called it fails with the masks, the
\* translation, the length and the labelled collection as they were
C21_NonFiniteScoreFails ==
    (last.op = "acquire" /\ scorer.op \in {"MaxEnt", "LastKL"} /\ ~scorer.finite) =>
        /\ ~scorer.ok
        /\ scorer.result = << >>
        /\ ~last.ok
        /\ last.afn_called
        /\ ~last.afn_returned
        /\ last.subset = << >>
        /\ LastCallChangedNothing

C21_Witness ==
    /\ last.op = "acquire"
    /\ scorer.op = "MaxEnt"
    /\ ~scorer.finite
    /\ scorer.b = 2
    /\ _len = 3
    /\ ~last.ok

\* ------------------------------------------------------ ConsistentDropout
\* the batch shapes forwarded are 1 .. MaxShapes; at most MaxForwards forward passes
MaxShapes == 2
MaxForwards == 5

\* no mask stored: self._mask is None
None == [id |-> 0, shape |-> 0]

\* ConsistentDropout.reset
cd_reset(d) == [d EXCEPT !._mask = None]

\* ConsistentDropout.train(mode)
cd_train(d, mode) ==
    LET d1 == [d EXCEPT !.training = mode]
    IN  IF ~mode THEN [cd_reset(d1) EXCEPT !.first = 0] ELSE d1

\* ConsistentDropout.eval: reset, then Module.eval, which is self.train(False)
cd_eval(d) == cd_train(cd_reset(d), FALSE)

\* ConsistentDropout.forward(x) for x of the given shape: a mask drawn is a
\* new one (its id is the number of masks drawn so far); in inference mode the
\* stored mask is kept only while it has the shape of x
cd_forward(d, shape) ==
    LET d1 == [d EXCEPT !.forwards = @ + 1]
        fresh == [id |-> d.drawn + 1, shape |-> shape]
    IN  IF d.training THEN [d1 EXCEPT !.drawn = @ + 1, !.used = fresh.id]
        ELSE LET m == IF d._mask = None \/ d._mask.shape # shape THEN fresh ELSE d._mask
             IN  [d1 EXCEPT !._mask = m, !.used = m.id,
                            !.drawn = IF m = fresh THEN @ + 1 ELSE @,
                            !.first = IF @ = 0 THEN m.id ELSE @]

\* ConsistentDropout(p) or ConsistentDropout2d(p), as replace_consistent_dropout
\* puts it in a model: in training mode, without a mask; used is the mask of
\* the last forward pass, first the mask of the first inference-mode forward
\* pass since the last eval()
InitDropout ==
    /\ InitPoolAtRest
    /\ InitAnnealerIdle
    /\ InitScorerIdle
    /\ InitFitIdle
    /\ clone = NoClone
    /\ losses = NoLosses
    /\ exited = NoExit
    /\ \E kind \in {"ConsistentDropout", "ConsistentDropout2d"} :
           dropout = cd_reset([op |-> "init", kind |-> kind, training |-> TRUE, _mask |-> None,
                               drawn |-> 0, used |-> 0, first |-> 0, forwards |-> 0])

dropoutFrame == <<pool, debug, _pairs, got, scopes, annealer, scorer, fit, clone, losses, exited>>

\* dropout.eval()
DropoutEval ==
    /\ dropout' = [cd_eval(dropout) EXCEPT !.op = "eval"]
    /\ UNCHANGED dropoutFrame

\* model.train(mode) or model.eval() on the model that holds the module:
\* Module.train calls train(mode) on every child
ModelTrain ==
    /\ \E mode \in BOOLEAN : dropout' = [cd_train(dropout, mode) EXCEPT !.op = "train"]
    /\ UNCHANGED dropoutFrame

\* a forward pass of one batch
DropoutForward ==
    /\ dropout.forwards < MaxForwards
    /\ \E shape \in 1 .. MaxShapes :
           dropout' = [cd_forward(dropout, shape) EXCEPT !.op = "forward"]
    /\ UNCHANGED dropoutFrame

NextDropout == DropoutEval \/ ModelTrain \/ DropoutForward

SpecDropout == InitDropout /\ [][NextDropout]_vars

\* C22: in inference mode every forward pass uses the mask drawn by the first
\* forward pass after the last eval()
C22_MaskFixedBetweenEvals ==
    (dropout.op = "forward" /\ ~dropout.training) => dropout.used = dropout.first

\* --------------------------------------------------- disable_augmentation
\* a variant that switches the augmentation off in the dataset object it was given
disable_augmentation_inplace(ud, dbg, ds) ==
    IF ~ds.transformed
        THEN [ok |-> FALSE, new |-> << >>, ud |-> ud, debug |-> dbg, ds |-> ds]
    ELSE LET off == [ds EXCEPT !.augmentation = FALSE]
         IN  [ok |-> TRUE, new |-> [ud EXCEPT !.dataset = off] @@ [debug |-> dbg],
              ud |-> ud, debug |-> dbg, ds |-> off]

\* disable_augmentation(dataset): ud and dbg are the fields of dataset, ds is
\* dataset._dataset; the shallow copy has the fields of dataset, and only its
\* _dataset is assigned: a new TransformedDataset over ds.raw_dataset with
\* ds._transforms and no augmentation
disable_augmentation(ud, dbg, ds) ==
    IF ~ds.transformed
        THEN [ok |-> FALSE, new |-> << >>, ud |-> ud, debug |-> dbg, ds |-> ds]
    ELSE LET new_dataset == [ud EXCEPT !.dataset = [ds EXCEPT !.augmentation = FALSE]]
                                @@ [debug |-> dbg]
         IN  IF new_dataset.len # ud.len
                 THEN [ok |-> FALSE, new |-> << >>, ud |-> ud, debug |-> dbg, ds |-> ds]
             ELSE [ok |-> TRUE, new |-> new_dataset, ud |-> ud, debug |-> dbg, ds |-> ds]

\* the pool view and its dataset object as disable_augmentation finds them
Original == [ud |-> UD, debug |-> debug, ds |-> clone.ds]

\* a view some of whose items have been labelled, over a dataset that is a
\* TransformedDataset or not, with an augmentation or without
InitClone ==
    /\ _dataset = Pool(PoolSize)
    /\ _mask \in [0 .. (PoolSize - 1) -> BOOLEAN]
    /\ _idx_mask = nonzero(_mask)
    /\ _len = popcount(_mask)
    /\ _label_fn \in BOOLEAN
    /\ _old_labelled = Baseline(BaselineSize)
    /\ _labelled = _old_labelled
    /\ last = NoCall @@ [pre |-> Pre]
    /\ e2e_b = 0
    /\ e2e_j = 0
    /\ debug \in {d \in BOOLEAN : d => ~_label_fn}
    /\ _pairs = ~_label_fn
    /\ got = NoGet
    /\ scopes = << >>
    /\ InitAnnealerIdle
    /\ InitScorerIdle
    /\ InitFitIdle
    /\ dropout = NoDropout
    /\ losses = NoLosses
    /\ exited = NoExit
    /\ \E transformed, augmentation \in BOOLEAN :
           clone = [op |-> "args",
                    ds |-> [raw_dataset |-> _dataset, transformed |-> transformed,
                            augmentation |-> augmentation]]

\* the call disable_augmentation(unlabelled)
DisableAugmentation ==
    /\ clone.op = "args"
    /\ LET r == disable_augmentation(UD, debug, clone.ds)
       IN  /\ clone' = [op |-> "disable_augmentation", ok |-> r.ok, new |-> r.new,
                        ds |-> r.ds, before |-> Original]
           /\ _dataset' = r.ud.dataset
           /\ _mask' = r.ud.mask
           /\ _idx_mask' = r.ud.idx_mask
           /\ _len' = r.ud.len
           /\ _label_fn' = r.ud.label_fn
           /\ debug' = r.debug
    /\ UNCHANGED <<_labelled, _old_labelled, last, e2e_b, e2e_j, _pairs, got, scopes,
                   annealer, scorer, fit, dropout, losses, exited>>

NextClone == DisableAugmentation

SpecClone == InitClone /\ [][NextClone]_vars

\* C23: disable_augmentation(dataset) returns a view with the length and the
\* translation of dataset, over the same raw data without the augmentation,
\* and dataset is as before: its backing dataset, mask, translation, length
\* and raw flag
C23_CloneLeavesOriginal ==
    (clone.op = "disable_augmentation" /\ clone.ok) =>
        /\ clone.new.len = clone.before.ud.len
        /\ clone.new.idx_mask = clone.before.ud.idx_mask
        /\ clone.new.dataset.raw_dataset = clone.before.ds.raw_dataset
        /\ ~clone.new.dataset.augmentation
        /\ Original = clone.before

C23_Witness ==
    /\ clone.op = "disable_augmentation"
    /\ clone.ok
    /\ clone.before.ds.augmentation
    /\ clone.ds.augmentation
    /\ debug
    /\ _len = 2
    /\ clone.new.idx_mask # arange(2)

\* ------------------------------------------------------------ soft losses
\* Reals are written exactly as sum over primes p of c[p] * ln(p) with
\* rational c[p], or as -inf or nan; a logit is an integer multiple of ln(2),
\* so that exp, softmax and log are computed without rounding.
NumClasses == 2
MaxRows == 2
MaxLogit == 1

Classes == 1 .. NumClasses
MaxSum == NumClasses * (2 ^ MaxLogit)
Primes == {p \in 2 .. MaxSum : \A d \in 2 .. (p - 1) : p % d # 0}

RECURSIVE gcd(_, _)
gcd(a, b) == IF b = 0 THEN a ELSE gcd(b, a % b)

Rat(n, d) == LET g == gcd(IF n < 0 THEN -n ELSE n, d) IN <<n \div g, d \div g>>
RatAdd(x, y) == Rat(x[1] * y[2] + y[1] * x[2], x[2] * y[2])
RatMul(x, y) == Rat(x[1] * y[1], x[2] * y[2])
RatDiv(x, y) == Rat(x[1] * y[2], x[2] * y[1])

RECURSIVE val(_, _)
\* the exponent of the prime p in n > 0
val(p, n) == IF n % p = 0 THEN 1 + val(p, n \div p) ELSE 0

ZeroCoef == [p \in Primes |-> <<0, 1>>]
Fin(c) == [kind |-> "fin", c |-> c]
NegInf == [kind |-> "-inf", c |-> ZeroCoef]
NaN == [kind |-> "nan", c |-> ZeroCoef]
Zero == Fin(ZeroCoef)
\* the logit k * ln(2); dead marks -inf
Logit(k, dead) == IF dead THEN NegInf ELSE Fin([ZeroCoef EXCEPT ![2] = <<k, 1>>])

add(x, y) ==
    IF x.kind = "nan" \/ y.kind = "nan" THEN NaN
    ELSE IF x.kind = "-inf" \/ y.kind = "-inf" THEN NegInf
    ELSE Fin([p \in Primes |-> RatAdd(x.c[p], y.c[p])])

\* q * x for a rational q >= 0
mul(q, x) ==
    IF x.kind = "nan" THEN NaN
    ELSE IF x.kind = "-inf" THEN (IF q[1] = 0 THEN NaN ELSE NegInf)
    ELSE Fin([p \in Primes |-> RatMul(q, x.c[p])])

\* -x for a finite x
neg(x) == IF x.kind = "fin" THEN Fin([p \in Primes |-> RatMul(<<-1, 1>>, x.c[p])]) ELSE NaN

RECURSIVE prod(_, _)
prod(c, S) ==
    IF S = {} THEN <<1, 1>>
    ELSE LET p == CHOOSE q \in S : TRUE
             e == c[p][1]
         IN  RatMul(IF e >= 0 THEN <<p ^ e, 1>> ELSE <<1, p ^ (-e)>>, prod(c, S \ {p}))

\* torch.exp of a log-probability or a logit: a rational
exp(x) == IF x.kind = "-inf" THEN <<0, 1>> ELSE prod(x.c, Primes)

\* torch.log of a rational q >= 0
log(q) ==
    IF q[1] = 0 THEN NegInf
    ELSE Fin([p \in Primes |-> <<val(p, q[1]) - val(p, q[2]), 1>>])

RECURSIVE rat_sum(_, _)
rat_sum(f, n) == IF n = 0 THEN <<0, 1>> ELSE RatAdd(f[n], rat_sum(f, n - 1))

RECURSIVE sum(_, _)
sum(f, n) == IF n = 0 THEN Zero ELSE add(f[n], sum(f, n - 1))

\* tensor.mean() of the n entries of f
mean(f, n) == LET t == sum(f, n) IN IF t.kind = "fin" THEN mul(<<1, n>>, t) ELSE t

\* F.softmax(row, dim=-1): the probabilities, or nan when every entry is -inf
softmax(row) ==
    LET e == [c \in Classes |-> exp(row[c])]
        S == rat_sum(e, NumClasses)
    IN  [nan |-> S[1] = 0,
         p |-> [c \in Classes |-> IF S[1] = 0 THEN <<0, 1>> ELSE RatDiv(e[c], S)]]

\* F.log_softmax(row, dim=-1): x - logsumexp(x)
log_softmax(row) ==
    LET S == rat_sum([c \in Classes |-> exp(row[c])], NumClasses)
    IN  [c \in Classes |-> IF S[1] = 0 THEN NaN ELSE add(row[c], neg(log(S)))]

\* the weighted row sums (w * preds).sum(dim=1), one per row
row_sums(w, preds, n) ==
    [i \in 1 .. n |-> sum([c \in Classes |-> IF w[i].nan THEN NaN
                                             ELSE mul(w[i].p[c], preds[i][c])], NumClasses)]

\* the value a loss returns, or the AssertionError of its isfinite check
checked(res) == [ok |-> res.kind = "fin", res |-> res]

\* a variant that weights by exp(target) without normalising it
soft_cross_entropy_unnormalised(logits, target, n) ==
    LET w == [i \in 1 .. n |-> [nan |-> FALSE, p |-> [c \in Classes |-> exp(target[i][c])]]]
        lsm == [i \in 1 .. n |-> log_softmax(logits[i])]
    IN  checked(neg(mean(row_sums(w, lsm, n), n)))

\* soft_nll_loss(preds, target): -(target.exp() * preds).sum(dim=1).mean()
soft_nll_loss(preds, target, n) ==
    LET w == [i \in 1 .. n |-> [nan |-> \E c \in Classes : target[i][c].kind = "nan",
                                p |-> [c \in Classes |-> exp(target[i][c])]]]
    IN  checked(neg(mean(row_sums(w, preds, n), n)))

\* soft_cross_entropy(logits, target):
\* -(softmax(target) * log_softmax(logits)).sum(dim=1).mean()
soft_cross_entropy(logits, target, n) ==
    LET w == [i \in 1 .. n |-> softmax(target[i])]
        lsm == [i \in 1 .. n |-> log_softmax(logits[i])]
    IN  checked(neg(mean(row_sums(w, lsm, n), n)))

\* the tests' reference: -(softmax(target) * log(softmax(logits))).sum(-1).mean()
cross_entropy_of_dists(logits, target, n) ==
    LET w == [i \in 1 .. n |-> softmax(target[i])]
        lp == [i \in 1 .. n |-> [c \in Classes |->
                  IF softmax(logits[i]).nan THEN NaN ELSE log(softmax(logits[i]).p[c])]]
    IN  neg(mean(row_sums(w, lp, n), n))

\* F.nll_loss(preds, y): minus the mean of the log-probability of the label
nll_loss(preds, y, n) == neg(mean([i \in 1 .. n |-> preds[i][y[i]]], n))

\* F.cross_entropy(logits, y)
cross_entropy(logits, y, n) ==
    nll_loss([i \in 1 .. n |-> log_softmax(logits[i])], y, n)

\* row i of a batch: the drawn row turned by i - 1 places
turned(row, i) == [c \in Classes |-> row[((c + i - 2) % NumClasses) + 1]]

Logits == [i \in 1 .. losses.n |-> turned([c \in Classes |-> Logit(losses.logits[c], FALSE)], i)]
Target ==
    [i \in 1 .. losses.n |->
        turned([c \in Classes |-> Logit(losses.target[c], c \in losses.dead)], i)]

\* the target distribution of every row is one-hot
OneHot == \A i \in 1 .. losses.n : \E y \in Classes : softmax(Target[i]).p[y] = <<1, 1>>
Labels == [i \in 1 .. losses.n |-> CHOOSE y \in Classes : softmax(Target[i]).p[y] = <<1, 1>>]

\* a batch of one row or of MaxRows rows of finite logits, and of target logits that are
\* finite, or -inf everywhere, or -inf everywhere but at one class
InitLosses ==
    /\ InitPoolAtRest
    /\ InitAnnealerIdle
    /\ InitScorerIdle
    /\ InitFitIdle
    /\ dropout = NoDropout
    /\ clone = NoClone
    /\ exited = NoExit
    /\ \E n \in {1, MaxRows}, logits, target \in [Classes -> 0 .. MaxLogit],
          dead \in {{}, Classes} \cup {Classes \ {y} : y \in Classes} :
           losses = [op |-> "args", n |-> n, logits |-> logits, target |-> target,
                     dead |-> dead]

lossesFrame == <<pool, debug, _pairs, got, scopes, annealer, scorer, fit, dropout, clone, exited>>

\* soft_cross_entropy(logits, target)
SoftCrossEntropy ==
    /\ losses.op = "args"
    /\ losses' = [losses EXCEPT !.op = "soft_cross_entropy"]
                     @@ soft_cross_entropy(Logits, Target, losses.n)
    /\ UNCHANGED lossesFrame

\* soft_nll_loss(log_softmax(logits), log_softmax(target))
SoftNllLoss ==
    /\ losses.op = "args"
    /\ losses' = [losses EXCEPT !.op = "soft_nll_loss"]
                     @@ soft_nll_loss([i \in 1 .. losses.n |-> log_softmax(Logits[i])],
                                      [i \in 1 .. losses.n |-> log_softmax(Target[i])],
                                      losses.n)
    /\ UNCHANGED lossesFrame

NextLosses == SoftCrossEntropy \/ SoftNllLoss

SpecLosses == InitLosses /\ [][NextLosses]_vars

\* C24: soft_cross_entropy(logits, target), and soft_nll_loss on the
\* log-probabilities of the same logits and targets, return the mean over the
\* rows of -sum_c softmax(target)_c * log softmax(logits)_c; when the target
\* distribution of every row is one-hot this is the hard-label loss
\* (F.cross_entropy, F.nll_loss) of the rows' labels
C24_SoftLosses ==
    (losses.op \in {"soft_cross_entropy", "soft_nll_loss"} /\ losses.ok) =>
        /\ losses.res = cross_entropy_of_dists(Logits, Target, losses.n)
        /\ OneHot => losses.res = cross_entropy(Logits, Labels, losses.n)

C24_Witness ==
    /\ losses.op = "soft_nll_loss"
    /\ losses.ok
    /\ losses.n = 2
    /\ OneHot
    /\ Labels[1] # Labels[2]
    /\ losses.logits[1] # losses.logits[2]
    /\ losses.res # Zero

C24_WitnessSoft ==
    /\ losses.op = "soft_cross_entropy"
    /\ losses.ok
    /\ losses.n = 2
    /\ ~OneHot
    /\ losses.logits[1] # losses.logits[2]
    /\ losses.target[1] # losses.target[2]

\* ------------------------------------------- translation against the mask
\* the translation lists the true positions of the mask in ascending order
TranslationIsNonzero == _idx_mask = nonzero(_mask)

\* C25: after construction and after every label() and reset() the
\* translation is the ascending sequence of the true positions of the mask,
\* and its length is the length of the pool
C25_TranslationIsMask ==
    /\ TranslationIsNonzero
    /\ Len(_idx_mask) = ud_len(UD)

\* ------------------------------------------------ conversion before label
\* the positions whose mask bit the last call cleared
Cleared == {i \in DOMAIN _mask : last.pre.mask[i] /\ ~_mask[i]}

Elems(s) == {s[k] : k \in 1 .. Len(s)}

\* C26: an acquire() that returns has converted the selected indices through
\* the translation the call started from; the absolute indices it returns
\* are the positions whose mask bit it cleared, labelled_indices afterwards
\* holds those of before and the returned ones, and the k-th item of the
\* returned subset is the pool item at the k-th returned absolute index
C26_ConvertBeforeLabel ==
    (last.op = "acquire" /\ last.ok) =>
        /\ last.true_idxs = gather(last.pre.idx_mask, last.idxs)
        /\ Elems(last.true_idxs) = Cleared
        /\ Elems(labelled_indices(_mask))
               = Elems(labelled_indices(last.pre.mask)) \cup Elems(last.true_idxs)
        /\ Len(last.subset) = Len(last.true_idxs)
        /\ \A k \in 1 .. Len(last.subset) :
               /\ last.subset[k] = last.true_idxs[k]
               /\ _dataset[last.subset[k] + 1] = last.true_idxs[k]

\* the second acquire: the item selected at logical index 0 is not item 0
C26_Witness ==
    /\ last.op = "acquire"
    /\ last.ok
    /\ last.b = 2
    /\ last.idxs = <<0, 1>>
    /\ last.true_idxs = <<1, 2>>
    /\ ~last.pre.mask[0]

\* ------------------------------------------------- inside one ssl step
\* the calls of the last step that are forward passes, mode switches to
\* training, optimizer updates
CallsOf(c) == {j \in 1 .. Len(fit.model.log) : fit.model.log[j].call = c}

\* the last ssl step went through
StepDone == fit.pc \in {"stage2", "reload", "done"} /\ fit.ssl_steps >= 1

\* C27: in every semi-supervised step that goes through, the pseudo-labels
\* come from a forward pass in inference mode with gradients disabled that
\* precedes every switch to training mode; the other forward passes run in
\* training mode with gradients; the step applies exactly one optimizer update
\* and leaves the model in training mode
C27_PseudoLabelsFirst ==
    StepDone =>
        LET calls == fit.model.log
        IN  /\ \E i \in CallsOf("forward") :
                   /\ calls[i].x = "pseudo"
                   /\ ~calls[i].training
                   /\ ~calls[i].grad
                   /\ \A j \in CallsOf("train") : i < j
                   /\ \A j \in CallsOf("forward") \ {i} :
                          i < j /\ calls[j].x # "pseudo" /\ calls[j].training /\ calls[j].grad
            /\ Cardinality(CallsOf("optimizer.step")) = 1
            /\ \A j \in CallsOf("forward") \cup CallsOf("train") \cup CallsOf("eval") :
                   \A k \in CallsOf("optimizer.step") : j < k
            /\ fit.updates = fit.before.updates + 1
            /\ fit.heap[fit.ssl_optim] = fit.before.heap[fit.ssl_optim] + 1
            /\ fit.model.training
            /\ fit.model.grad

\* a second step: the model comes in training mode from the first
C27_Witness ==
    /\ StepDone
    /\ fit.pc = "stage2"
    /\ fit.ssl_steps = 2
    /\ fit.it = 2
    /\ Cardinality(CallsOf("forward")) = 3

\* C28: the annealer's counter advances once per 50 completed steps counted
\* across the epochs of stage 2: after n completed steps it is the initial
\* value plus floor(n / 50), and the weight used in step n is the schedule's
\* value at the counter reached after n - 1 steps
C28_AnnealEvery50 ==
    (fit.pc \in {"stage2", "reload", "done"}) =>
        /\ annealer.step = FitStep + (fit.iteration \div AnnealEvery)
        /\ fit.iteration = fit.ssl_steps
        /\ fit.ssl_steps >= 1 =>
              /\ fit.used.step = FitStep + ((fit.iteration - 1) \div AnnealEvery)
              /\ fit.used.weight = weight([annealer EXCEPT !.step = fit.used.step])

\* the 51st step, in the third epoch, is the first to use the advanced counter
C28_Witness ==
    /\ fit.pc = "stage2"
    /\ fit.iteration = AnnealEvery + 1
    /\ fit.epoch >= 2
    /\ fit.it < AnnealEvery
    /\ annealer.step = FitStep + 1
    /\ fit.used.step = FitStep + 1
    /\ ~RatEq(fit.used.weight, weight([annealer EXCEPT !.step = FitStep]))

\* -------------------------------------------------- true_labels() scopes
\* C29: for scopes of true_labels() / tmp_debug() that exit normally, nested
\* or not, the flag is raw inside every open scope, and on each exit it has
\* the value it had before that scope was entered
C29_ScopedFlag ==
    /\ Len(scopes) > 0 => debug
    /\ exited.op = "exit" => exited.debug = exited.was

\* the inner of two nested scopes has exited and left the flag raw for the
\* rest of the outer one, which was entered with the flag off
C29_Witness ==
    /\ exited.op = "exit"
    /\ exited.was
    /\ exited.debug
    /\ Len(scopes) = 1
    /\ scopes[1].resets
    /\ ~scopes[1].was

\* C30: when the body of a true_labels() scope raises, the flag is back at
\* the value it had before the scope was entered
C30_RestoredOnRaise == exited.op = "raise" => exited.debug = exited.was

====
